---- MODULE Spec2Model ----
(***************************************************************************)
(* Verification model of three components of the repository:               *)
(*   - COCOMetric and VOCMetric (paddlex/cv/models/utils/det_metrics/      *)
(*     metrics.py): the metric accumulators reset/update/accumulate/get;   *)
(*   - PyOnlyForecastingModel and its pre- and postprocessor               *)
(*     (ultra_infer/ts/forecasting/ppts/__init__.py).                      *)
(* Each component has its own specification (SpecCOCO, SpecVOC, SpecBuild, *)
(* SpecRun, SpecBatch); the variables of the other components stay at      *)
(* their initial values.                                                   *)
(***************************************************************************)
EXTENDS Integers, Sequences, FiniteSets, TLC

VARIABLES
    \* ---- COCOMetric ----
    results,        \* self.results: 'bbox' and 'mask' lists
    eval_results,   \* self.eval_results: mapping, keys among 'bbox', 'mask'
    cocoExc,        \* exception raised by the last COCOMetric call, or "none"
    cocoRet,        \* mapping returned by the last get()
    files,          \* result files written by accumulate
    calls,          \* log of the calls made on the COCOMetric, in order
    \* ---- VOCMetric ----
    evaluate_difficult, \* self.evaluate_difficult
    detection_map,  \* self.detection_map: the updates the accumulator received
    vocLast,        \* the last VOCMetric.update call: its arguments and effect
    \* ---- forecasting: construction ----
    config,         \* the loaded config (the keys read with config.get)
    scalerExists,   \* whether the scaler file exists on disk
    preprocessor,   \* the last _PyOnlyForecastingPreprocessor construction
    postprocessor,  \* the last _PyOnlyForecastingPostprocessor construction
    \* ---- forecasting: postprocessor run ----
    runIn,          \* arguments of _PyOnlyForecastingPostprocessor.run
    runOut,         \* its outcome
    \* ---- forecasting: batch_predict ----
    series,         \* the caller's time series objects (their contents)
    batchIn,        \* ts_list of the call and what the chain does to each item
    batchOut        \* outcome of the call

cocoVars == <<results, eval_results, cocoExc, cocoRet, files, calls>>
vocVars == <<evaluate_difficult, detection_map, vocLast>>

buildVars == <<config, scalerExists, preprocessor, postprocessor>>
runVars == <<runIn, runOut>>

batchVars == <<series, batchIn, batchOut>>

vars == <<cocoVars, vocVars, buildVars, runVars, batchVars>>

\* ------------------------------------------------------------------------
\* Bounds
\* ------------------------------------------------------------------------
MaxCalls == 4
MaxImages == 2
MaxBoxes == 2
MaxMapCalls == 3
MaxRows == 3
MaxStep == 3
MaxBatch == 2

\* ------------------------------------------------------------------------
\* Python helpers
\* ------------------------------------------------------------------------
EmptyDict == [k \in {} |-> <<>>]

DictSet(d, k, v) == [x \in (DOMAIN d) \cup {k} |-> IF x = k THEN v ELSE d[x]]

\* ------------------------------------------------------------------------
\* COCOMetric
\* ------------------------------------------------------------------------

\* The instance attributes __init__ (and the reset it calls) assigns.
COCOAttrs == {"clsid2catid", "classwise", "bias", "results", "eval_results"}

HasAttr(name) == name \in COCOAttrs

\* What get_infer_results may hand to update: a dict with an optional 'bbox'
\* and an optional 'mask' list.
BboxLists == {<<>>, <<1>>, <<2, 3>>}
MaskLists == {<<>>, <<7>>}
InferResults ==
    { [k \in D |-> IF k = "bbox" THEN b ELSE m] :
        D \in SUBSET {"bbox", "mask"}, b \in BboxLists, m \in MaskLists }

COCOInitState ==
    /\ results = [bbox |-> <<>>, mask |-> <<>>]
    /\ eval_results = EmptyDict
    /\ cocoExc = "none"
    /\ cocoRet = EmptyDict
    /\ files = {}
    /\ calls = <<>>

COCOReset ==
    /\ Len(calls) < MaxCalls
    /\ results' = [bbox |-> <<>>, mask |-> <<>>]
    /\ eval_results' = EmptyDict
    /\ cocoExc' = "none"
    /\ calls' = Append(calls, [op |-> "reset", infer |-> EmptyDict])
    /\ UNCHANGED <<cocoRet, files>>

\* A variant of the update of the result lists that assigns instead of extending.
UpdatedResultsAssign(res, infer) ==
    [bbox |-> IF "bbox" \in DOMAIN infer THEN infer["bbox"] ELSE <<>>,
     mask |-> IF "mask" \in DOMAIN infer THEN infer["mask"] ELSE <<>>]

\* results['bbox'] += infer_results['bbox'] if 'bbox' in infer_results else []
UpdatedResults(res, infer) ==
    [bbox |-> res.bbox \o (IF "bbox" \in DOMAIN infer THEN infer["bbox"] ELSE <<>>),
     mask |-> res.mask \o (IF "mask" \in DOMAIN infer THEN infer["mask"] ELSE <<>>)]

COCOUpdate ==
    /\ Len(calls) < MaxCalls
    /\ \E infer \in InferResults :
        /\ results' = UpdatedResults(results, infer)
        /\ calls' = Append(calls, [op |-> "update", infer |-> infer])
    /\ cocoExc' = "none"
    /\ UNCHANGED <<eval_results, cocoRet, files>>

\* One branch of accumulate (kind is 'bbox' or 'mask'), applied to a state
\* st = [ev, files, exc]. The branch reads self.output_eval before it opens
\* the file and self.anno_file after it has written it.
AccumulateBranch(st, kind, res) ==
    IF st.exc # "none" \/ Len(res[kind]) = 0 THEN st
    ELSE IF ~HasAttr("output_eval") THEN [st EXCEPT !.exc = "AttributeError"]
    ELSE IF ~HasAttr("anno_file")
         THEN [st EXCEPT !.files = @ \cup {kind}, !.exc = "AttributeError"]
    ELSE [st EXCEPT !.files = @ \cup {kind},
                    !.ev = DictSet(@, kind, "stats")]

AccumulateResult(ev, fs, res) ==
    AccumulateBranch(
        AccumulateBranch([ev |-> ev, files |-> fs, exc |-> "none"], "bbox", res),
        "mask", res)

COCOAccumulate ==
    /\ Len(calls) < MaxCalls
    /\ LET st == AccumulateResult(eval_results, files, results) IN
        /\ eval_results' = st.ev
        /\ files' = st.files
        /\ cocoExc' = st.exc
    /\ calls' = Append(calls, [op |-> "accumulate", infer |-> EmptyDict])
    /\ UNCHANGED <<results, cocoRet>>

COCOGet ==
    /\ Len(calls) < MaxCalls
    /\ cocoRet' = eval_results
    /\ cocoExc' = "none"
    /\ calls' = Append(calls, [op |-> "get", infer |-> EmptyDict])
    /\ UNCHANGED <<results, eval_results, files>>

\* ------------------------------------------------------------------------
\* VOCMetric
\* ------------------------------------------------------------------------

RECURSIVE SumTo(_, _)
SumTo(s, i) == IF i = 0 THEN 0 ELSE s[i] + SumTo(s, i - 1)

Min(a, b) == IF a < b THEN a ELSE b

\* Python's seq[a:b] for 0 <= a <= b (positions past the end are dropped).
PySlice(s, a, b) == SubSeq(s, a + 1, Min(b, Len(s)))

\* An n x c array whose cell (r, j) holds the token 10 * r + j.
Matrix(n, c) == [rows |-> [r \in 1..n |-> [j \in 1..c |-> 10 * r + j]], ncols |-> c]

\* arr[:, j] (j counted from 0) and arr[:, 2:]
Column(arr, j) == [r \in 1..Len(arr.rows) |-> arr.rows[r][j + 1]]
ColumnsFrom2(arr) ==
    [rows |-> [r \in 1..Len(arr.rows) |-> SubSeq(arr.rows[r], 3, arr.ncols)],
     ncols |-> IF arr.ncols > 2 THEN arr.ncols - 2 ELSE 0]
Shape(arr) == <<Len(arr.rows), arr.ncols>>

\* Column counts of outputs['bbox']: 6 (label, score, 4 coordinates), or 3,
\* which leaves a single coordinate column.
BboxCols == {3, 6}

\* Ground truth of image i, padded with an all-zero box.
ZeroBox == <<0, 0, 0, 0>>
GtBoxOf(i) == IF i % 2 = 1 THEN <<(<<4, 4, 8, 8>>), ZeroBox>>
              ELSE <<(<<4, 8, 8, 16>>), (<<8, 8, 16, 16>>)>>
GtClassOf(i) == IF i % 2 = 1 THEN <<1, 0>> ELSE <<2, 1>>
DifficultOf(i) == IF i % 2 = 1 THEN <<0, 0>> ELSE <<1, 0>>
ScaleOf(i) == IF i % 2 = 1 THEN <<2, 4>> ELSE <<1, 2>>

\* The batches update may be called with: k images, bbox_num[i] boxes for
\* image i, one row of outputs['bbox'] per box.
BboxNums == UNION { [1..k -> 0..MaxBoxes] : k \in 1..MaxImages }

VOCBatch(hasScale, c, num) ==
    [inputs |->
        [key \in {"gt_bbox", "gt_class", "difficult"}
                   \cup (IF hasScale THEN {"scale_factor"} ELSE {}) |->
            [i \in 1..Len(num) |-> CASE key = "gt_bbox" -> GtBoxOf(i)
                                     [] key = "gt_class" -> GtClassOf(i)
                                     [] key = "difficult" -> DifficultOf(i)
                                     [] OTHER -> ScaleOf(i)]],
     outputs |-> [bbox |-> Matrix(SumTo(num, Len(num)), c), bbox_num |-> num]]

VOCBatches ==
    { VOCBatch(hasScale, c, num) :
        hasScale \in BOOLEAN, c \in BboxCols, num \in BboxNums }

\* prune_zero_padding: the ground truth up to the first all-zero box.
RECURSIVE ValidCnt(_, _)
ValidCnt(gt_box, i) ==
    IF i > Len(gt_box) \/ gt_box[i] = ZeroBox THEN i - 1 ELSE ValidCnt(gt_box, i + 1)

PruneZeroPadding(gt_box, gt_label, difficult) ==
    LET n == ValidCnt(gt_box, 1) IN
    [gt_box |-> SubSeq(gt_box, 1, n),
     gt_label |-> SubSeq(gt_label, 1, n),
     difficult |-> IF difficult = <<"None">> THEN difficult ELSE SubSeq(difficult, 1, n)]

\* gt_box / np.array([w, h, w, h]) with h, w = scale_factor[i]
ScaleGtBox(gt_box, hw) ==
    [b \in 1..Len(gt_box) |->
        <<gt_box[b][1] \div hw[2], gt_box[b][2] \div hw[1],
          gt_box[b][3] \div hw[2], gt_box[b][4] \div hw[1]>>]

\* bboxes.shape == (1, 1)
IsPlaceholderNever(shape) == FALSE

IsPlaceholder(shape) == shape = <<1, 1>>

\* bbox_idx += bbox_num
NextBboxIdxStuck(bbox_idx, bbox_num) == bbox_idx

NextBboxIdx(bbox_idx, bbox_num) == bbox_idx + bbox_num

\* The loop over the images of the batch, from image i on (i counted from 1):
\* each image hands its slice of the flat arrays to detection_map.update.
RECURSIVE UpdateLoop(_, _, _, _)
UpdateLoop(st, i, a, difficults) ==
    IF i > Len(a.gt_boxes) THEN st
    ELSE
        LET gt_box == ScaleGtBox(a.gt_boxes[i], a.scale_factor[i])
            difficult == IF difficults = <<"None">> THEN <<"None">> ELSE difficults[i]
            bbox_num == a.bbox_lengths[i]
            pruned == PruneZeroPadding(gt_box, a.gt_labels[i], difficult)
            call == [bbox |-> PySlice(a.bboxes.rows, st.bbox_idx, st.bbox_idx + bbox_num),
                     score |-> PySlice(a.scores, st.bbox_idx, st.bbox_idx + bbox_num),
                     label |-> PySlice(a.labels, st.bbox_idx, st.bbox_idx + bbox_num),
                     gt_box |-> pruned.gt_box,
                     gt_label |-> pruned.gt_label,
                     difficult |-> pruned.difficult]
        IN UpdateLoop([dm |-> Append(st.dm, call),
                       bbox_idx |-> NextBboxIdx(st.bbox_idx, bbox_num)],
                      i + 1, a, difficults)

\* VOCMetric.update: the accumulator after the call and the final bbox_idx
\* (-1 when the call returned before the loop).
VOCUpdateResult(dm, inputs, outputs, evalDifficult) ==
    LET bboxes == ColumnsFrom2(outputs.bbox)
        k == Len(inputs["gt_bbox"])
        a == [bboxes |-> bboxes,
              scores |-> Column(outputs.bbox, 1),
              labels |-> Column(outputs.bbox, 0),
              bbox_lengths |-> outputs.bbox_num,
              gt_boxes |-> inputs["gt_bbox"],
              gt_labels |-> inputs["gt_class"],
              scale_factor |-> IF "scale_factor" \in DOMAIN inputs
                               THEN inputs["scale_factor"]
                               ELSE [i \in 1..k |-> <<1, 1>>]]
        difficults == IF ~evalDifficult THEN inputs["difficult"] ELSE <<"None">>
    IN IF IsPlaceholder(Shape(bboxes)) THEN [dm |-> dm, bbox_idx |-> -1]
       ELSE UpdateLoop([dm |-> dm, bbox_idx |-> 0], 1, a, difficults)

NoVOCCall == [called |-> FALSE]

VOCInitState ==
    /\ evaluate_difficult \in BOOLEAN
    /\ detection_map = <<>>
    /\ vocLast = NoVOCCall

VOCReset ==
    /\ detection_map' = <<>>
    /\ vocLast' = NoVOCCall
    /\ UNCHANGED evaluate_difficult

VOCUpdate ==
    \E batch \in VOCBatches :
        /\ Len(detection_map) + Len(batch.inputs["gt_bbox"]) <= MaxMapCalls
        /\ LET r == VOCUpdateResult(detection_map, batch.inputs, batch.outputs,
                                    evaluate_difficult)
           IN /\ detection_map' = r.dm
              /\ vocLast' = [called |-> TRUE, inputs |-> batch.inputs,
                             outputs |-> batch.outputs, before |-> detection_map,
                             bbox_idx |-> r.bbox_idx]
        /\ UNCHANGED evaluate_difficult


\* ------------------------------------------------------------------------
\* Forecasting: construction of the processor chains
\* ------------------------------------------------------------------------

\* Values a config entry read with config.get(key, None) may hold.
PyValues == {"None", "False", "True", "0", "1"}

\* Python truthiness of such a value.
Truthy(v) == v \in {"True", "1"}

\* config.get(key, None)
ConfigGet(cfg, key) == IF key \in DOMAIN cfg THEN cfg[key] ELSE "None"

\* The configs: 'scale' and 'time_feat' are optional; 'size', 'info_params',
\* 'holiday' and 'input_data' are present in every config.
Configs ==
    UNION { [D -> PyValues] : D \in SUBSET {"scale", "time_feat"} }

ScalerError == "Exception: Cannot find scaler file"

\* _PyOnlyForecastingPreprocessor._build_processors, with the Normalize stage
\* appended after BuildTSDataset.
PreBuildProcessorsLate(cfg, exists) ==
    LET p1 == <<"CutOff">>
        p2 == Append(p1, "BuildTSDataset")
        p3 == IF Truthy(ConfigGet(cfg, "scale")) THEN Append(p2, "Normalize") ELSE p2
        p4 == IF Truthy(ConfigGet(cfg, "time_feat"))
              THEN Append(p3, "CalcTimeFeatures") ELSE p3
    IN IF Truthy(ConfigGet(cfg, "scale")) /\ ~exists
       THEN [exc |-> ScalerError, processors |-> <<>>]
       ELSE [exc |-> "none", processors |-> Append(p4, "DataFrame2Arrays")]

\* _PyOnlyForecastingPreprocessor._build_processors
PreBuildProcessors(cfg, exists) ==
    LET p1 == <<"CutOff">>
        p2 == IF Truthy(ConfigGet(cfg, "scale")) THEN Append(p1, "Normalize") ELSE p1
        p3 == Append(p2, "BuildTSDataset")
        p4 == IF Truthy(ConfigGet(cfg, "time_feat"))
              THEN Append(p3, "CalcTimeFeatures") ELSE p3
    IN IF Truthy(ConfigGet(cfg, "scale")) /\ ~exists
       THEN [exc |-> ScalerError, processors |-> <<>>]
       ELSE [exc |-> "none", processors |-> Append(p4, "DataFrame2Arrays")]

\* _PyOnlyForecastingPostprocessor._build_processors without the check of
\* the scaler file.
PostBuildProcessorsUnchecked(cfg, exists) ==
    IF Truthy(ConfigGet(cfg, "scale"))
    THEN [exc |-> "none", processors |-> <<"Denormalize">>]
    ELSE [exc |-> "none", processors |-> <<>>]

\* _PyOnlyForecastingPostprocessor._build_processors
PostBuildProcessors(cfg, exists) ==
    IF Truthy(ConfigGet(cfg, "scale"))
    THEN IF ~exists
         THEN [exc |-> ScalerError, processors |-> <<>>]
         ELSE [exc |-> "none", processors |-> <<"Denormalize">>]
    ELSE [exc |-> "none", processors |-> <<>>]

\* The outcome of a constructor: the chain it built or the exception it
\* raised, and whether the scaler file existed when it ran.
Constructed(r, exists) ==
    [state |-> IF r.exc = "none" THEN "built" ELSE "raised",
     exc |-> r.exc, processors |-> r.processors, sawFile |-> exists]

Unbuilt == [state |-> "unbuilt", exc |-> "none", processors |-> <<>>, sawFile |-> FALSE]

BuildInitState ==
    /\ config \in Configs
    /\ scalerExists \in BOOLEAN
    /\ preprocessor = Unbuilt
    /\ postprocessor = Unbuilt

\* The environment creates or removes the scaler file.
ScalerFileChange ==
    /\ scalerExists' = ~scalerExists
    /\ UNCHANGED <<config, preprocessor, postprocessor>>

\* _PyOnlyForecastingPreprocessor.__init__
NewPreprocessor ==
    /\ preprocessor' = Constructed(PreBuildProcessors(config, scalerExists), scalerExists)
    /\ UNCHANGED <<config, scalerExists, postprocessor>>

\* _PyOnlyForecastingPostprocessor.__init__
NewPostprocessor ==
    /\ postprocessor' = Constructed(PostBuildProcessors(config, scalerExists), scalerExists)
    /\ UNCHANGED <<config, scalerExists, preprocessor>>

\* PyOnlyForecastingModel.__init__: the preprocessor, then the postprocessor;
\* an exception of the first leaves the second unconstructed.
NewModel ==
    /\ preprocessor' = Constructed(PreBuildProcessors(config, scalerExists), scalerExists)
    /\ postprocessor' = IF preprocessor'.state = "raised" THEN Unbuilt
                        ELSE Constructed(PostBuildProcessors(config, scalerExists),
                                         scalerExists)
    /\ UNCHANGED <<config, scalerExists>>

\* ------------------------------------------------------------------------
\* Forecasting: _PyOnlyForecastingPostprocessor.run
\* ------------------------------------------------------------------------

\* The fields of ori_ts run looks at, in the order of its if/elif chain.
TsFields == <<"past_target", "observed_cov_numeric", "known_cov_numeric",
              "static_cov_numeric">>

TsFieldSet == { TsFields[i] : i \in 1..Len(TsFields) }

\* ori_ts: each field is absent, None or a series.
OriTsDicts == UNION { [D -> {"None", "series"}] : D \in SUBSET TsFieldSet }

\* The time index of the series of a field: three points, regular with the
\* given step or irregular; each field has its own range of times.
IndexBase(field) ==
    CASE field = "past_target" -> 0
      [] field = "observed_cov_numeric" -> 10
      [] field = "known_cov_numeric" -> 20
      [] OTHER -> 30

IndexOf(field, shape) ==
    LET b == IndexBase(field) IN
    IF shape.regular THEN <<b + shape.step, b + 2 * shape.step, b + 3 * shape.step>>
    ELSE <<b + 1, b + 2, b + 4>>

\* Shapes of the index: regular (its freq attribute set, or None, written 0)
\* or irregular (freq None).
IndexShapes ==
    { [regular |-> TRUE, step |-> st, hasFreq |-> hf] : st \in 1..2, hf \in BOOLEAN }
        \cup { [regular |-> FALSE, step |-> 0, hasFreq |-> FALSE] }

\* info_params['freq']: a string (its step in time units), an int, or
\* neither.
FreqRules ==
    { [type |-> "str", step |-> st] : st \in 1..2 }
        \cup { [type |-> "int", step |-> st] : st \in 1..MaxStep }
        \cup { [type |-> "other", step |-> 0] }

RunInputs ==
    { [ori_ts |-> o, shape |-> sh, freq |-> f, rows |-> n] :
        o \in OriTsDicts, sh \in IndexShapes, f \in FreqRules, n \in 1..MaxRows }

\* ori_ts.get(field, None) is not None
Available(ori_ts, field) == field \in DOMAIN ori_ts /\ ori_ts[field] # "None"

\* The if/elif chain with the second and third branch exchanged.
SelectTsSwapped(ori_ts) ==
    IF Available(ori_ts, "past_target") THEN "past_target"
    ELSE IF Available(ori_ts, "known_cov_numeric") THEN "known_cov_numeric"
    ELSE IF Available(ori_ts, "observed_cov_numeric") THEN "observed_cov_numeric"
    ELSE IF Available(ori_ts, "static_cov_numeric") THEN "static_cov_numeric"
    ELSE "ValueError"

\* The if/elif chain that picks ts: the field used, or "ValueError".
SelectTs(ori_ts) ==
    IF Available(ori_ts, "past_target") THEN "past_target"
    ELSE IF Available(ori_ts, "observed_cov_numeric") THEN "observed_cov_numeric"
    ELSE IF Available(ori_ts, "known_cov_numeric") THEN "known_cov_numeric"
    ELSE IF Available(ori_ts, "static_cov_numeric") THEN "static_cov_numeric"
    ELSE "ValueError"

\* pd.infer_freq: the common step of a regular index, None (0) otherwise.
InferFreq(index) ==
    IF \A i \in 2..Len(index) : index[i] - index[i - 1] = index[2] - index[1]
    THEN index[2] - index[1] ELSE 0

\* pd.date_range(start, periods=n, freq=step)
DateRange(start, n, step) == [i \in 1..n |-> start + (i - 1) * step]

\* Number of entries of pd.RangeIndex(start, stop, step), step > 0.
RangeLen(start, stop, step) ==
    IF stop <= start THEN 0 ELSE (stop - start + step - 1) \div step

\* pd.RangeIndex(start=start, stop=stop, step=step)
RangeIndex(start, stop, step) ==
    [i \in 1..RangeLen(start, stop, step) |-> start + (i - 1) * step]

RECURSIVE MaxOf(_, _)
MaxOf(s, i) == IF i = 1 THEN s[1]
               ELSE IF s[i] > MaxOf(s, i - 1) THEN s[i] ELSE MaxOf(s, i - 1)

\* int(i.timestamp()): seconds of a time given in days.
Timestamp(t) == t * 86400

NoIndex == [made |-> FALSE, exc |-> "none", index |-> <<>>]

\* The branch on info_params['freq'] that builds future_target_index.
FutureIndex(index, shape, freq, n) ==
    IF freq.type = "str"
    THEN LET past_freq == IF shape.hasFreq THEN shape.step ELSE InferFreq(index)
         IN IF past_freq = 0 THEN [NoIndex EXCEPT !.exc = "TypeError"]
            ELSE [made |-> TRUE, exc |-> "none",
                  index |-> DateRange(index[Len(index)] + past_freq, n, freq.step)]
    ELSE IF freq.type = "int"
    THEN LET start_idx == MaxOf(index, Len(index)) + 1
             stop_idx == start_idx + n
         IN [made |-> TRUE, exc |-> "none",
             index |-> RangeIndex(start_idx, stop_idx, freq.step)]
    ELSE [NoIndex EXCEPT !.exc = "UnboundLocalError"]

\* _PyOnlyForecastingPostprocessor.run: the field used, the future index and
\* the dates of the result, or the exception raised. The processor chain
\* leaves the index of the frame as it is.
PostRun(in) ==
    LET field == SelectTs(in.ori_ts) IN
    IF field = "ValueError"
    THEN [done |-> TRUE, exc |-> "ValueError: No value in ori_ts", field |-> "none",
          fi |-> NoIndex, result |-> FALSE, dates |-> <<>>]
    ELSE
        LET fi == FutureIndex(IndexOf(field, in.shape), in.shape, in.freq, in.rows)
            out == [done |-> TRUE, exc |-> fi.exc, field |-> field, fi |-> fi,
                    result |-> FALSE, dates |-> <<>>]
        IN IF fi.exc # "none" THEN out
           ELSE IF Len(fi.index) # in.rows
                THEN [out EXCEPT !.exc = "ValueError: Shape of passed values"]
           ELSE IF in.freq.type = "int" /\ Len(fi.index) > 0
                THEN [out EXCEPT !.exc = "AttributeError"]
           ELSE [out EXCEPT !.result = TRUE,
                            !.dates = [i \in 1..Len(fi.index) |-> Timestamp(fi.index[i])]]

NotRun == [done |-> FALSE]

RunInitState ==
    /\ runIn \in RunInputs
    /\ runOut = NotRun

PostprocessorRun ==
    /\ runOut' = PostRun(runIn)
    /\ UNCHANGED runIn

\* ------------------------------------------------------------------------
\* Forecasting: PyOnlyForecastingModel.batch_predict
\* ------------------------------------------------------------------------
\* Objects live in a heap, a sequence of contents indexed by reference. The
\* caller's series are the references 1..Len(series); objects made during
\* the call get the next free references.

SeriesIds == {1, 2}

\* deepcopy replaced by the object itself.
NoCopy(heap, ref) == [heap |-> heap, ref |-> ref]

\* deepcopy(csv_data): a new object with the same content.
DeepCopy(heap, ref) == [heap |-> Append(heap, heap[ref]), ref |-> Len(heap) + 1]

\* What preprocessing does to the content of a series.
Transformed(v) == v + 10

\* What a run of the preprocessor chain may do to the record of one item:
\*   "replace": 'ts' becomes a new object, the input object is untouched;
\*   "inplace": the object 'ts' refers to is changed in place;
\*   "rebind":  'ts' becomes a new object and 'ori_ts' is set to it too;
\*   "raise":   a stage raises.
ChainEffects == {"replace", "inplace", "rebind", "raise"}

\* self._preprocessor.run(data): the processor chain applied to the record.
PreprocessorRun(heap, data, effect) ==
    CASE effect = "replace" ->
            [heap |-> Append(heap, Transformed(heap[data.ts])), exc |-> "none",
             data |-> [data EXCEPT !.ts = Len(heap) + 1]]
      [] effect = "inplace" ->
            [heap |-> [heap EXCEPT ![data.ts] = Transformed(@)], exc |-> "none",
             data |-> data]
      [] effect = "rebind" ->
            [heap |-> Append(heap, Transformed(heap[data.ts])), exc |-> "none",
             data |-> [ori_ts |-> Len(heap) + 1, ts |-> Len(heap) + 1]]
      [] OTHER ->
            [heap |-> heap, exc |-> "ValueError", data |-> data]

\* The first loop of batch_predict from item i on: st holds the heap, the
\* data_list built so far, the copies made at line 58 (reference and
\* content when copied) and the exception raised, if any.
RECURSIVE PreprocessLoop(_, _, _, _)
PreprocessLoop(st, ts_list, effects, i) ==
    IF i > Len(ts_list) \/ st.exc # "none" THEN st
    ELSE
        LET csv_data == ts_list[i]
            cp == DeepCopy(st.heap, csv_data)
            data == [ori_ts |-> cp.ref, ts |-> csv_data]
            r == PreprocessorRun(cp.heap, data, effects[i])
        IN PreprocessLoop(
               [heap |-> r.heap,
                data_list |-> IF r.exc = "none" THEN Append(st.data_list, r.data)
                              ELSE st.data_list,
                copies |-> Append(st.copies, [ref |-> cp.ref, content |-> cp.heap[cp.ref]]),
                exc |-> r.exc],
               ts_list, effects, i + 1)

\* np.stack([data["ts"][idx] for data in data_list]): one row per item; no
\* item, no array.
Stack(heap, data_list) ==
    IF data_list = <<>> THEN [exc |-> "ValueError", rows |-> <<>>]
    ELSE [exc |-> "none",
          rows |-> [i \in 1..Len(data_list) |-> heap[data_list[i].ts]]]

\* self._runtime.infer(input_data)[0]: one output row per input row.
RuntimeInfer(rows) == [i \in 1..Len(rows) |-> 1000 + rows[i]]

\* The second loop: one result per row of output_arrs[0], built by the
\* postprocessor from that row and data_list[idx]["ori_ts"].
PostprocessLoop(heap, data_list, output) ==
    [idx \in 1..Len(output) |->
        [pred |-> output[idx],
         ori_ref |-> data_list[idx].ori_ts,
         ori_ts |-> heap[data_list[idx].ori_ts]]]

\* batch_predict(ts_list), on the caller's heap.
BatchPredictResult(heap, ts_list, effects) ==
    LET pre == PreprocessLoop([heap |-> heap, data_list |-> <<>>, copies |-> <<>>,
                               exc |-> "none"], ts_list, effects, 1)
        stacked == Stack(pre.heap, pre.data_list)
        output == RuntimeInfer(stacked.rows)
        failed == [done |-> TRUE, exc |-> "ValueError", heap |-> pre.heap,
                   data_list |-> pre.data_list, copies |-> pre.copies,
                   output |-> <<>>, results |-> <<>>]
    IN IF pre.exc # "none" \/ stacked.exc # "none" THEN failed
       ELSE [failed EXCEPT !.exc = "none", !.output = output,
                           !.results = PostprocessLoop(pre.heap, pre.data_list, output)]

NotCalled == [done |-> FALSE]

BatchCalls ==
    UNION { { [ts_list |-> l, effects |-> e] :
                l \in [1..n -> SeriesIds], e \in [1..n -> ChainEffects] } :
            n \in 0..MaxBatch }

BatchInitState ==
    /\ series \in [SeriesIds -> {1, 2}]
    /\ batchIn = [ts_list |-> <<>>, effects |-> <<>>]
    /\ batchOut = NotCalled

BatchPredict ==
    /\ ~batchOut.done
    /\ \E call \in BatchCalls :
        /\ batchIn' = call
        /\ batchOut' = BatchPredictResult(series, call.ts_list, call.effects)
    /\ series' = SubSeq(batchOut'.heap, 1, Len(series))

\* ------------------------------------------------------------------------
\* Specifications
\* ------------------------------------------------------------------------
\* The components not under study stay in one fixed initial state.
COCOFixed == COCOInitState
VOCFixed == evaluate_difficult = FALSE /\ detection_map = <<>> /\ vocLast = NoVOCCall
BuildFixed ==
    /\ config = EmptyDict
    /\ scalerExists = FALSE
    /\ preprocessor = Unbuilt
    /\ postprocessor = Unbuilt
RunFixed == runOut = NotRun /\ runIn = CHOOSE in \in RunInputs : TRUE
BatchFixed ==
    /\ series = <<1, 2>>
    /\ batchIn = [ts_list |-> <<>>, effects |-> <<>>]
    /\ batchOut = NotCalled

InitCOCO == COCOInitState /\ VOCFixed /\ BuildFixed /\ RunFixed /\ BatchFixed

NextCOCO ==
    \/ COCOReset /\ UNCHANGED <<vocVars, buildVars, runVars, batchVars>>
    \/ COCOUpdate /\ UNCHANGED <<vocVars, buildVars, runVars, batchVars>>
    \/ COCOAccumulate /\ UNCHANGED <<vocVars, buildVars, runVars, batchVars>>
    \/ COCOGet /\ UNCHANGED <<vocVars, buildVars, runVars, batchVars>>

SpecCOCO == InitCOCO /\ [][NextCOCO]_vars

InitVOC == VOCInitState /\ COCOFixed /\ BuildFixed /\ RunFixed /\ BatchFixed

NextVOC ==
    \/ VOCReset /\ UNCHANGED <<cocoVars, buildVars, runVars, batchVars>>
    \/ VOCUpdate /\ UNCHANGED <<cocoVars, buildVars, runVars, batchVars>>

SpecVOC == InitVOC /\ [][NextVOC]_vars

InitBuild == BuildInitState /\ COCOFixed /\ VOCFixed /\ RunFixed /\ BatchFixed

NextBuild ==
    \/ ScalerFileChange /\ UNCHANGED <<cocoVars, vocVars, runVars, batchVars>>
    \/ NewPreprocessor /\ UNCHANGED <<cocoVars, vocVars, runVars, batchVars>>
    \/ NewPostprocessor /\ UNCHANGED <<cocoVars, vocVars, runVars, batchVars>>
    \/ NewModel /\ UNCHANGED <<cocoVars, vocVars, runVars, batchVars>>

SpecBuild == InitBuild /\ [][NextBuild]_vars

InitRun == RunInitState /\ COCOFixed /\ VOCFixed /\ BuildFixed /\ BatchFixed

NextRun == PostprocessorRun /\ UNCHANGED <<cocoVars, vocVars, buildVars, batchVars>>

SpecRun == InitRun /\ [][NextRun]_vars

InitBatch == BatchInitState /\ COCOFixed /\ VOCFixed /\ BuildFixed /\ RunFixed

NextBatch == BatchPredict /\ UNCHANGED <<cocoVars, vocVars, buildVars, runVars>>

SpecBatch == InitBatch /\ [][NextBatch]_vars

\* ------------------------------------------------------------------------
\* COCOMetric: properties
\* ------------------------------------------------------------------------

\* Index of the most recent reset in a call log (0: none since construction).
RECURSIVE LastReset(_)
LastReset(log) ==
    IF log = <<>> THEN 0
    ELSE IF log[Len(log)].op = "reset" THEN Len(log)
    ELSE LastReset(SubSeq(log, 1, Len(log) - 1))

\* Concatenation, in call order, of the 'kind' entries of the update calls of a log.
RECURSIVE Contributed(_, _)
Contributed(log, kind) ==
    IF log = <<>> THEN <<>>
    ELSE LET c == log[Len(log)]
             rest == Contributed(SubSeq(log, 1, Len(log) - 1), kind)
         IN IF c.op = "update" /\ kind \in DOMAIN c.infer
            THEN rest \o c.infer[kind] ELSE rest

SinceReset(log) == SubSeq(log, LastReset(log) + 1, Len(log))

\* Some accumulate call since the most recent reset ran while the 'kind'
\* list was non-empty.
AccumulatedNonEmpty(log, kind) ==
    \E j \in 1..Len(SinceReset(log)) :
        /\ SinceReset(log)[j].op = "accumulate"
        /\ Contributed(SubSeq(SinceReset(log), 1, j - 1), kind) # <<>>

\* The log is a prefix of the lifecycle reset, update*, accumulate, get.
IsLifecycle(log) ==
    /\ log # <<>>
    /\ log[1].op = "reset"
    /\ \A i \in 2..Len(log) :
        \/ log[i].op = "update" /\ \A j \in 2..i : log[j].op = "update"
        \/ log[i].op = "accumulate" /\ \A j \in 2..(i - 1) : log[j].op = "update"
        \/ /\ log[i].op = "get" /\ i > 2 /\ log[i - 1].op = "accumulate"
           /\ \A j \in 2..(i - 2) : log[j].op = "update"

\* C1: every call of the lifecycle reset, update*, accumulate, get on a
\* COCOMetric created by its constructor completes without raising, and
\* when the updates contributed a bbox result the mapping get returns
\* contains 'bbox'.
C1_Lifecycle ==
    IsLifecycle(calls) =>
        /\ cocoExc = "none"
        /\ (calls[Len(calls)].op = "get" /\ Contributed(calls, "bbox") # <<>>)
              => "bbox" \in DOMAIN cocoRet

\* C2: results['bbox'] and results['mask'] are the concatenation, in call
\* order, of what the update calls since the most recent reset (or the
\* construction) contributed; accumulate and get leave the lists alone.
C2_ResultsAreContributions ==
    /\ results.bbox = Contributed(SinceReset(calls), "bbox")
    /\ results.mask = Contributed(SinceReset(calls), "mask")

\* C2 witness: updates before and after a reset, then an accumulate, with
\* both lists holding the contributions of the later update only.
C2_Witness ==
    /\ Len(calls) = 4
    /\ calls[1].op = "update" /\ calls[1].infer = [k \in {"bbox", "mask"} |->
                                      IF k = "bbox" THEN <<1>> ELSE <<7>>]
    /\ calls[2].op = "reset"
    /\ calls[3].op = "update" /\ "bbox" \in DOMAIN calls[3].infer
    /\ calls[4].op = "accumulate"
    /\ results.bbox = <<2, 3>>
    /\ results.mask = <<7>>

\* C8: the mapping get returns (self.eval_results) has a 'bbox' ('mask')
\* entry exactly when some accumulate since the most recent reset ran while
\* results['bbox'] (results['mask']) was non-empty.
C8_EvalResultsIffAccumulated ==
    \A kind \in {"bbox", "mask"} :
        (kind \in DOMAIN eval_results) <=> AccumulatedNonEmpty(calls, kind)

\* ------------------------------------------------------------------------
\* VOCMetric: properties
\* ------------------------------------------------------------------------

\* C7: an update that reaches the loop hands image i exactly the boxes,
\* scores and labels at the flat positions [sum(bbox_num[0..i-1]),
\* sum(bbox_num[0..i])) (the batches have one row of outputs['bbox'] per
\* counted box): the slices are contiguous, disjoint and in image order, the
\* three slices of an image have bbox_num[i] entries each, and the final
\* bbox_idx is the sum of all bbox_num.
C7_SlicesPartitionFlatArrays ==
    (vocLast.called /\ vocLast.bbox_idx # -1) =>
        LET num == vocLast.outputs.bbox_num
            k == Len(vocLast.inputs["gt_bbox"])
            arr == vocLast.outputs.bbox
            base == Len(vocLast.before)
        IN /\ Len(detection_map) = base + k
           /\ \A i \in 1..k :
                LET off == SumTo(num, i - 1)
                    call == detection_map[base + i]
                IN /\ Len(call.bbox) = num[i]
                   /\ Len(call.score) = num[i]
                   /\ Len(call.label) = num[i]
                   /\ \A t \in 1..num[i] :
                        /\ call.bbox[t] = SubSeq(arr.rows[off + t], 3, arr.ncols)
                        /\ call.score[t] = arr.rows[off + t][2]
                        /\ call.label[t] = arr.rows[off + t][1]
           /\ vocLast.bbox_idx = SumTo(num, k)

\* C7 witness: a two-image batch with one and two boxes, on an accumulator
\* that already holds an earlier image.
C7_Witness ==
    /\ vocLast.called
    /\ vocLast.outputs.bbox_num = <<1, 2>>
    /\ vocLast.outputs.bbox.ncols = 6
    /\ Len(vocLast.before) = 1
    /\ Len(detection_map) = 3
    /\ Len(detection_map[3].bbox) = 2

\* C9: an update whose box-coordinate array has shape (1, 1) leaves the
\* accumulator as it was (no ground truth of the batch is added); for any
\* other shape the accumulator receives exactly one update per image of the
\* batch, in image order, after what it already held.
C9_PlaceholderSkipsAccumulator ==
    vocLast.called =>
        LET k == Len(vocLast.inputs["gt_bbox"])
            base == Len(vocLast.before)
        IN IF Shape(ColumnsFrom2(vocLast.outputs.bbox)) = <<1, 1>>
           THEN detection_map = vocLast.before
           ELSE /\ Len(detection_map) = base + k
                /\ SubSeq(detection_map, 1, base) = vocLast.before
                /\ \A i \in 1..k :
                     detection_map[base + i].gt_label =
                         SubSeq(GtClassOf(i), 1, ValidCnt(GtBoxOf(i), 1))

\* C9 witness: a two-image batch with the (1, 1) placeholder, on an
\* accumulator that already holds an image, which stays as it was.
C9_Witness ==
    /\ vocLast.called
    /\ Shape(ColumnsFrom2(vocLast.outputs.bbox)) = <<1, 1>>
    /\ Len(vocLast.inputs["gt_bbox"]) = 2
    /\ vocLast.before # <<>>
    /\ detection_map = vocLast.before

\* ------------------------------------------------------------------------
\* Forecasting: properties
\* ------------------------------------------------------------------------

\* Positions of a stage in a chain.
Positions(chain, stage) == { i \in 1..Len(chain) : chain[i] = stage }

Has(chain, stage) == Positions(chain, stage) # {}

Before(chain, a, b) ==
    \A i \in Positions(chain, a), j \in Positions(chain, b) : i < j

\* C4: a built preprocessor chain starts with CutOff, ends with
\* DataFrame2Arrays, holds BuildTSDataset, holds Normalize iff 'scale' is
\* truthy (after CutOff, before BuildTSDataset), holds CalcTimeFeatures iff
\* 'time_feat' is truthy (after BuildTSDataset, before DataFrame2Arrays),
\* and holds no stage twice.
C4_PreprocessorChainOrder ==
    preprocessor.state = "built" =>
        LET chain == preprocessor.processors IN
        /\ chain[1] = "CutOff"
        /\ chain[Len(chain)] = "DataFrame2Arrays"
        /\ Has(chain, "BuildTSDataset")
        /\ Has(chain, "Normalize") <=> Truthy(ConfigGet(config, "scale"))
        /\ Before(chain, "CutOff", "Normalize")
        /\ Before(chain, "Normalize", "BuildTSDataset")
        /\ Has(chain, "CalcTimeFeatures") <=> Truthy(ConfigGet(config, "time_feat"))
        /\ Before(chain, "BuildTSDataset", "CalcTimeFeatures")
        /\ Before(chain, "CalcTimeFeatures", "DataFrame2Arrays")
        /\ \A st \in { chain[i] : i \in 1..Len(chain) } :
               Cardinality(Positions(chain, st)) = 1

\* C4 witness: the chain of a config with 'scale' and 'time_feat' truthy.
C4_Witness ==
    /\ preprocessor.state = "built"
    /\ preprocessor.processors = <<"CutOff", "Normalize", "BuildTSDataset",
                                   "CalcTimeFeatures", "DataFrame2Arrays">>

\* C5, for one constructor outcome c and the stage it may add: it raised the
\* scaler-file error exactly when 'scale' is truthy and the file was missing
\* when it ran; otherwise it built a chain that holds the stage iff 'scale'
\* is truthy.
ScalerRule(c, stage) ==
    c.state # "unbuilt" =>
        /\ (c.state = "raised") <=> (Truthy(ConfigGet(config, "scale")) /\ ~c.sawFile)
        /\ c.state = "raised" => c.exc = ScalerError
        /\ c.state = "built" =>
              (Has(c.processors, stage) <=> Truthy(ConfigGet(config, "scale")))

\* C5: building the preprocessor or the postprocessor raises the error
\* naming the scaler file exactly when 'scale' is truthy and the file does
\* not exist; with 'scale' falsy nothing is raised and the chains hold no
\* Normalize and no Denormalize; with 'scale' truthy and the file present
\* they hold Normalize and Denormalize; of two built chains one holds its
\* stage iff the other does.
C5_ScalerFileRule ==
    /\ ScalerRule(preprocessor, "Normalize")
    /\ ScalerRule(postprocessor, "Denormalize")
    /\ (preprocessor.state = "built" /\ postprocessor.state = "built") =>
          (Has(preprocessor.processors, "Normalize")
              <=> Has(postprocessor.processors, "Denormalize"))

\* C5 witness: with 'scale' truthy the preprocessor was built while the file
\* existed and the postprocessor raised after the file was removed.
C5_Witness ==
    /\ preprocessor.state = "built"
    /\ Has(preprocessor.processors, "Normalize")
    /\ postprocessor.state = "raised"
    /\ postprocessor.exc = ScalerError
    /\ ~scalerExists

\* C6: for a string frequency or an integer step >= 1 and a prediction of n
\* rows, the generated future index has exactly n entries, all after the
\* last index of the observed series.
C6_FutureIndexLength ==
    (runOut.done /\ runOut.fi.made) =>
        /\ Len(runOut.fi.index) = runIn.rows
        /\ \A i \in 1..Len(runOut.fi.index) :
               runOut.fi.index[i] > MaxOf(IndexOf(runOut.field, runIn.shape),
                          Len(IndexOf(runOut.field, runIn.shape)))

\* The first field, in priority order, that ori_ts holds with a value.
FirstAvailable(ori_ts) ==
    LET avail == { i \in 1..Len(TsFields) : Available(ori_ts, TsFields[i]) }
    IN IF avail = {} THEN "none"
       ELSE TsFields[CHOOSE i \in avail : \A j \in avail : i <= j]

\* C10: run takes the time index from the first of past_target,
\* observed_cov_numeric, known_cov_numeric, static_cov_numeric that is
\* present and not None; when none is, it raises ValueError and produces no
\* result.
C10_FieldPriority ==
    runOut.done =>
        IF FirstAvailable(runIn.ori_ts) = "none"
        THEN /\ runOut.exc = "ValueError: No value in ori_ts"
             /\ ~runOut.result
             /\ ~runOut.fi.made
        ELSE /\ runOut.field = FirstAvailable(runIn.ori_ts)
             /\ runOut.exc # "ValueError: No value in ori_ts"
             /\ runOut.fi.made =>
                    runOut.fi.index[1] > IndexBase(runOut.field)
             /\ runOut.fi.made =>
                    runOut.fi.index[1] < IndexBase(runOut.field) + 10

\* C10 witness: past_target is None, observed_cov_numeric is absent, the two
\* lower fields hold series, and run used known_cov_numeric to build a result.
C10_Witness ==
    /\ runOut.done
    /\ "past_target" \in DOMAIN runIn.ori_ts
    /\ runIn.ori_ts["past_target"] = "None"
    /\ "observed_cov_numeric" \notin DOMAIN runIn.ori_ts
    /\ Available(runIn.ori_ts, "known_cov_numeric")
    /\ Available(runIn.ori_ts, "static_cov_numeric")
    /\ runOut.field = "known_cov_numeric"
    /\ runOut.result

\* ------------------------------------------------------------------------
\* batch_predict: properties
\* ------------------------------------------------------------------------

\* C3 as stated: a call of batch_predict that returns gives one result per
\* input, in input order, and result i is built from row i of the first
\* runtime output and from the copy of input i taken before preprocessing.
C3_ResultsFromCopies ==
    (batchOut.done /\ batchOut.exc = "none") =>
        /\ Len(batchOut.results) = Len(batchIn.ts_list)
        /\ \A i \in 1..Len(batchOut.results) :
            /\ batchOut.results[i].pred = batchOut.output[i]
            /\ batchOut.results[i].ori_ref = batchOut.copies[i].ref
            /\ batchOut.results[i].ori_ts = batchOut.copies[i].content

\* C3 as amended: a call that returns gives one result per input, in input
\* order; result i is built from row i of the first runtime output and from
\* the 'ori_ts' field of the record the preprocessor chain returned for
\* input i. Each record starts with 'ori_ts' bound to a deep copy of input
\* i, an object of its own made before any stage runs on that item, so
\* unless a stage rebinds 'ori_ts' the result is rebuilt from that copy with
\* the content it had when copied, whatever the stages did to the inputs in
\* place. The call raises, and returns nothing, when a stage raises or when
\* the list is empty.
C3_ResultsFromChainRecord ==
    batchOut.done =>
        /\ (batchOut.exc = "none") <=>
              /\ batchIn.ts_list # <<>>
              /\ \A i \in 1..Len(batchIn.effects) : batchIn.effects[i] # "raise"
        /\ batchOut.exc # "none" => batchOut.results = <<>>
        /\ \A i \in 1..Len(batchOut.copies) :
              batchOut.copies[i].ref \notin SeriesIds
        /\ batchOut.exc = "none" =>
              /\ Len(batchOut.results) = Len(batchIn.ts_list)
              /\ \A i \in 1..Len(batchOut.results) :
                  /\ batchOut.results[i].pred = batchOut.output[i]
                  /\ batchOut.results[i].ori_ref = batchOut.data_list[i].ori_ts
                  /\ batchIn.effects[i] # "rebind" =>
                        /\ batchOut.results[i].ori_ref = batchOut.copies[i].ref
                        /\ batchOut.results[i].ori_ts = batchOut.copies[i].content

\* C3 witness: the same series passed twice; the first item is changed in
\* place, and the first result is still rebuilt from the content the series
\* had when it was copied.
C3_Witness ==
    /\ batchOut.done
    /\ batchOut.exc = "none"
    /\ batchIn.ts_list = <<1, 1>>
    /\ batchIn.effects = <<"inplace", "replace">>
    /\ Len(batchOut.results) = 2
    /\ series[1] # batchOut.results[1].ori_ts
    /\ batchOut.results[2].ori_ts = series[1]

====
